---------------------------- MODULE Spec2Model ----------------------------
(***************************************************************************)
(* Model of src/channels/pusher.ios.ts: the three callback registries      *)
(* (TNSPusher._globalEvents, TNSPusherChannel._channelEvents,              *)
(* TNSPusherConnection.events), the closures the three bind methods hand   *)
(* to the native Pusher transport, and PusherDelegateImpl's status         *)
(* translation.  The transport is the environment: it issues handles,      *)
(* keeps the subscriptions, delivers payloads and sends notifications.     *)
(***************************************************************************)
EXTENDS Naturals, FiniteSets, Sequences

\* ------------------------------------------------------------- bounds
\* Handles the transport issues in one run (one per bind call).
MaxHandles == 2
\* TNSPusherChannel objects created by subscribe in one run.
MaxChannels == 1
\* Handles the transport issues in one run of the lifecycle specification.
LifecycleHandles == 1

\* ------------------------------------------------------------- values
\* Callback references (Function objects, compared by identity).
Callbacks == {"c1", "c2"}
\* No handle: Map.get gives undefined, which `if (id)` treats as absent.
NoHandle == 0
ChannelNames == {"order-42"}
NoChannel == "-"
\* Event names a caller binds on a channel, and the events the server sends on one.
ChannelEventNames == {"price-update"}
ChannelPayloadEvents == {"price-update", "trade"}
\* Logical events a caller binds on the connection.
LogicalEvents == {"error", "ping", "pong"}
\* InternalPusherEvents (pusher.common): the discriminators of `event`.
InternalError == "pusher:error"
InternalPing == "pusher:ping"
InternalPong == "pusher:pong"
InternalPusherEvents == {InternalError, InternalPing, InternalPong}
\* The native ConnectionState enum; the last one has no case in _getState.
ConnectionState ==
    {"Connecting", "Connected", "Disconnecting", "Disconnected", "Reconnecting",
     "ReconnectingWhenNetworkBecomesReachable"}
\* The `old` values a notification is drawn with (the code never reads it).
OldStates == {"Connecting", "Disconnected"}
\* The ConnectionStatus enum (enums).
ConnectionStatus ==
    {"CONNECTING", "CONNECTED", "DISCONNECTING", "DISCONNECTED", "RECONNECTING"}
\* The value of a declared field that was never assigned.
Undefined == "undefined"
Bodies == {"b1"}

\* Raw payloads (NSDictionary or nil) the transport hands to a closure.
NilData == [nil |-> TRUE, event |-> "", channel |-> NoChannel, data |-> ""]
RawPayloads ==
    {NilData}
    \cup [nil : {FALSE}, event : InternalPusherEvents, channel : {NoChannel}, data : Bodies]
    \cup [nil : {FALSE}, event : ChannelPayloadEvents, channel : ChannelNames, data : Bodies]

\* data.objectForKey(key)
objectForKey(data, key) ==
    IF key = "event" THEN data.event
    ELSE IF key = "channel" THEN data.channel
    ELSE data.data

\* JavaScript values a callback receives.
JsNull == <<"null">>
JsString(s) == <<"string", s>>
JsObject(e, ch, d) == <<"object", e, ch, d>>

\* deserialize(raw) of ./helper: the NSDictionary as a JavaScript object.
deserialize(data) ==
    IF data.nil THEN JsNull
    ELSE JsObject(objectForKey(data, "event"), objectForKey(data, "channel"),
                  objectForKey(data, "data"))

EmptyRegistry == [c \in Callbacks |-> NoHandle]

VARIABLES
    ownerAlive,      \* the delegate's WeakRef<TNSPusher> still resolves
    issued,          \* handles the transport has issued so far
    subs,            \* transport: handle -> the subscription bind created
    subscribed,      \* transport: the channel names subscribed
    _globalEvents,   \* TNSPusher._globalEvents
    channels,        \* the TNSPusherChannel objects subscribe returned
    _connection,     \* TNSPusher._connection (NoConnection until first access)
    invoked,         \* the user callbacks the last payload delivery invoked
    run,             \* the bind/unbind calls made back to back on one callback
    lastNew          \* the `new` of the last notification the owner received

vars == <<ownerAlive, issued, subs, subscribed, _globalEvents, channels,
          _connection, invoked, run, lastNew>>

\* TNSPusher._connection before the first access of `connection`.  `made`
\* lists the TNSPusherConnection objects constructed so far, by who asked.
NoConnection ==
    [created |-> FALSE, events |-> EmptyRegistry, _state |-> Undefined, made |-> <<>>]

NoRun ==
    [scope |-> "none", obj |-> 0, cb |-> "", event |-> "", handle |-> NoHandle,
     fresh |-> FALSE, stage |-> 0, calls |-> 0, passed |-> NoHandle, dlv |-> FALSE]
NoNotification == "none"

\* ---------------------------------------------------------- transport
\* What the transport keeps for one handle: who bound it (the scope, and for
\* a channel the TNSPusherChannel object), on which channel and event, the
\* user callback its closure captured, whether the transport still calls it,
\* and how often unbind was called with the handle.
Subscription(scope, binder, chan, event, cb) ==
    [scope |-> scope, binder |-> binder, chan |-> chan, event |-> event,
     callback |-> cb, active |-> TRUE, unbinds |-> 0]

\* this.ios.bind(closure) / bindWithEventName:callback: : a fresh handle.
ios_bind(s, rec) ==
    [h \in 1..(issued + 1) |-> IF h <= issued THEN s[h] ELSE rec]

\* this.ios.unbindWithCallbackId(id)
ios_unbindWithCallbackId(s, id) ==
    [s EXCEPT ![id].active = FALSE, ![id].unbinds = @ + 1]

\* unbindWithEventName:callbackId: on the native channel
ios_unbindWithEventName(s, event, id) ==
    [s EXCEPT ![id].active = FALSE, ![id].unbinds = @ + 1]

\* ----------------------------------------------------------- closures
Invocation(cb, arg, h) == [callback |-> cb, arg |-> arg, via |-> h]

\* (data) => { callback(deserialize(data)); }
TNSPusher_closure(cb, data, h) == {Invocation(cb, deserialize(data), h)}

\* (data) => { console.log('called'); }
TNSPusherChannel_closure(cb, data, h) == {}

\* A demultiplexer whose pong branch tests the ping discriminator.
TNSPusherConnection_closure_Crossed(event, cb, data, h) ==
    IF data.nil THEN {}
    ELSE LET nativeEvent == objectForKey(data, "event") IN
         (IF event = "error" /\ nativeEvent = InternalError
            THEN {Invocation(cb, deserialize(data), h)} ELSE {})
         \cup (IF event = "ping" /\ nativeEvent = InternalPing
            THEN {Invocation(cb, JsString("ping"), h)} ELSE {})
         \cup (IF event = "pong" /\ nativeEvent = InternalPing
            THEN {Invocation(cb, JsString("pong"), h)} ELSE {})

\* A demultiplexer whose error branch does not look at the discriminator.
TNSPusherConnection_closure_Undiscriminated(event, cb, data, h) ==
    IF data.nil THEN {}
    ELSE LET nativeEvent == objectForKey(data, "event") IN
         (IF event = "error"
            THEN {Invocation(cb, deserialize(data), h)} ELSE {})
         \cup (IF event = "ping" /\ nativeEvent = InternalPing
            THEN {Invocation(cb, JsString("ping"), h)} ELSE {})
         \cup (IF event = "pong" /\ nativeEvent = InternalPong
            THEN {Invocation(cb, JsString("pong"), h)} ELSE {})

\* The demultiplexing closure of TNSPusherConnection.bind.
TNSPusherConnection_closure(event, cb, data, h) ==
    IF data.nil THEN {}
    ELSE LET nativeEvent == objectForKey(data, "event") IN
         (IF event = "error" /\ nativeEvent = InternalError
            THEN {Invocation(cb, deserialize(data), h)} ELSE {})
         \cup (IF event = "ping" /\ nativeEvent = InternalPing
            THEN {Invocation(cb, JsString("ping"), h)} ELSE {})
         \cup (IF event = "pong" /\ nativeEvent = InternalPong
            THEN {Invocation(cb, JsString("pong"), h)} ELSE {})

\* What the closure behind handle h does with a payload.
Closure(h, data) ==
    LET s == subs[h] IN
    IF s.scope = "client" THEN TNSPusher_closure(s.callback, data, h)
    ELSE IF s.scope = "connection"
      THEN TNSPusherConnection_closure(s.event, s.callback, data, h)
    ELSE TNSPusherChannel_closure(s.callback, data, h)

\* The handles whose closure the transport calls with a payload: every global
\* binding (client and connection both use this.ios.bind), and the bindings of
\* the payload's channel and event.
Receivers(data) ==
    {h \in 1..issued :
        /\ subs[h].active
        /\ \/ subs[h].scope \in {"client", "connection"}
           \/ /\ subs[h].scope = "channel"
              /\ ~data.nil
              /\ subs[h].chan = data.channel
              /\ subs[h].event = data.event}

\* Every user callback a delivery of `data` would invoke now.
InvokedBy(data) == UNION {Closure(h, data) : h \in Receivers(data)}

\* ------------------------------------------------------------ history
\* A step that is neither a bind, an unbind nor a delivery.
Quiet ==
    /\ invoked' = {}
    /\ run' = NoRun

\* A step of the delegate: the transport told it something.
Notified ==
    /\ invoked' = {}
    /\ run' = [NoRun EXCEPT !.scope = "delegate"]

\* cb has no live subscription whose closure calls it.
Fresh(cb) ==
    \A h \in 1..issued :
        ~(subs[h].active /\ subs[h].callback = cb
          /\ subs[h].scope \in {"client", "connection"})

AfterBind(scope, obj, cb, event, h) ==
    /\ invoked' = {}
    /\ run' = [scope |-> scope, obj |-> obj, cb |-> cb, event |-> event,
               handle |-> h, fresh |-> Fresh(cb), stage |-> 1, calls |-> 0,
               passed |-> NoHandle, dlv |-> FALSE]

AfterUnbind(scope, obj, cb, event, id) ==
    /\ invoked' = {}
    /\ run' = IF /\ run.scope = scope /\ run.obj = obj /\ run.cb = cb
                 /\ run.event = event /\ run.stage \in {1, 2} /\ ~run.dlv
              THEN [run EXCEPT !.stage = @ + 1,
                               !.calls = IF id # NoHandle THEN @ + 1 ELSE @,
                               !.passed = IF id # NoHandle THEN id ELSE @]
              ELSE NoRun

\* ------------------------------------------------------------ TNSPusher
Init ==
    /\ ownerAlive = TRUE
    /\ issued = 0
    /\ subs = <<>>
    /\ subscribed = {}
    /\ _globalEvents = EmptyRegistry
    /\ channels = <<>>
    /\ _connection = NoConnection
    /\ invoked = {}
    /\ run = NoRun
    /\ lastNew = NoNotification

\* A connect that marks the facade as connecting itself.
connect_SettingState ==
    /\ ownerAlive
    /\ Quiet
    /\ _connection' = [_connection EXCEPT !._state = "CONNECTING"]
    /\ UNCHANGED <<ownerAlive, issued, subs, subscribed, _globalEvents, channels,
                   lastNew>>

connect ==
    /\ ownerAlive
    /\ Quiet
    /\ UNCHANGED <<ownerAlive, issued, subs, subscribed, _globalEvents, channels,
                   _connection, lastNew>>

disconnect ==
    /\ ownerAlive
    /\ Quiet
    /\ UNCHANGED <<ownerAlive, issued, subs, subscribed, _globalEvents, channels,
                   _connection, lastNew>>

\* An accessor that constructs a new facade at every access.
connection_Unmemoized ==
    [created |-> TRUE, events |-> EmptyRegistry, _state |-> Undefined,
     made |-> IF Len(_connection.made) < 2
                THEN Append(_connection.made, "new") ELSE _connection.made]

\* get connection(): the facade, created on first access.
connection ==
    IF ~_connection.created
      THEN [created |-> TRUE, events |-> EmptyRegistry, _state |-> Undefined,
            made |-> Append(_connection.made, "new")]
      ELSE _connection

\* The facade `c` an access returned, a new one noted as made for `who`.
MadeFor(who, c) ==
    [c EXCEPT !.made = [k \in DOMAIN @ |-> IF @[k] = "new" THEN who ELSE @[k]]]

\* A caller reads client.connection.
get_connection ==
    /\ ownerAlive
    /\ _connection' = MadeFor("caller", connection)
    /\ Quiet
    /\ UNCHANGED <<ownerAlive, issued, subs, subscribed, _globalEvents, channels, lastNew>>

\* A bind that forgets to record the handle it was given.
GlobalEventsSet_Unrecorded(reg, cb, id) == reg

\* this._globalEvents.set(callback, id)
GlobalEventsSet(reg, cb, id) == [reg EXCEPT ![cb] = id]

\* An unbind that leaves the entry in `_globalEvents`.
GlobalEventsDelete_Kept(reg, cb) == reg

\* this._globalEvents.delete(callback)
GlobalEventsDelete(reg, cb) == [reg EXCEPT ![cb] = NoHandle]

TNSPusher_bind(cb) ==
    /\ ownerAlive
    /\ LET id == issued + 1 IN
       /\ subs' = ios_bind(subs, Subscription("client", 0, NoChannel, "", cb))
       /\ issued' = id
       /\ _globalEvents' = GlobalEventsSet(_globalEvents, cb, id)
       /\ AfterBind("client", 0, cb, "", id)
    /\ UNCHANGED <<ownerAlive, subscribed, channels, _connection, lastNew>>

TNSPusher_unbind(cb) ==
    /\ ownerAlive
    /\ LET id == _globalEvents[cb] IN
       /\ IF id # NoHandle
            THEN /\ subs' = ios_unbindWithCallbackId(subs, id)
                 /\ _globalEvents' = GlobalEventsDelete(_globalEvents, cb)
            ELSE UNCHANGED <<subs, _globalEvents>>
       /\ AfterUnbind("client", 0, cb, "", id)
    /\ UNCHANGED <<ownerAlive, issued, subscribed, channels, _connection, lastNew>>

subscribe(name) ==
    /\ ownerAlive
    /\ subscribed' = subscribed \cup {name}
    /\ channels' = Append(channels, [name |-> name, _channelEvents |-> EmptyRegistry])
    /\ Quiet
    /\ UNCHANGED <<ownerAlive, issued, subs, _globalEvents, _connection, lastNew>>

unsubscribeAll ==
    /\ ownerAlive
    /\ subscribed' = {}
    /\ Quiet
    /\ UNCHANGED <<ownerAlive, issued, subs, _globalEvents, channels, _connection, lastNew>>

\* An unsubscribe that also clears the registries of the channel's objects.
unsubscribe_Clearing(channelName) ==
    /\ ownerAlive
    /\ subscribed' = subscribed \ {channelName}
    /\ channels' = [i \in DOMAIN channels |->
                      IF channels[i].name = channelName
                        THEN [channels[i] EXCEPT !._channelEvents = EmptyRegistry]
                        ELSE channels[i]]
    /\ Quiet
    /\ UNCHANGED <<ownerAlive, issued, subs, _globalEvents, _connection, lastNew>>

unsubscribe(channelName) ==
    /\ ownerAlive
    /\ subscribed' = subscribed \ {channelName}
    /\ Quiet
    /\ UNCHANGED <<ownerAlive, issued, subs, _globalEvents, channels, _connection, lastNew>>

\* ----------------------------------------------------- TNSPusherChannel
\* this._channelEvents.set(callback, ret.value)
ChannelEventsSet(reg, cb, id) == [reg EXCEPT ![cb] = id]

\* this._channelEvents.delete(callback)
ChannelEventsDelete(reg, cb) == [reg EXCEPT ![cb] = NoHandle]

TNSPusherChannel_bind(i, event, cb) ==
    /\ ownerAlive
    /\ i \in 1..Len(channels)
    /\ LET id == issued + 1 IN
       /\ subs' = ios_bind(subs, Subscription("channel", i, channels[i].name, event, cb))
       /\ issued' = id
       /\ channels' = [channels EXCEPT
                         ![i]._channelEvents = ChannelEventsSet(@, cb, id)]
       /\ AfterBind("channel", i, cb, event, id)
    /\ UNCHANGED <<ownerAlive, subscribed, _globalEvents, _connection, lastNew>>

TNSPusherChannel_unbind(i, event, cb) ==
    /\ ownerAlive
    /\ i \in 1..Len(channels)
    /\ LET id == channels[i]._channelEvents[cb] IN
       /\ IF id # NoHandle
            THEN /\ subs' = ios_unbindWithEventName(subs, event, id)
                 /\ channels' = [channels EXCEPT
                                   ![i]._channelEvents = ChannelEventsDelete(@, cb)]
            ELSE UNCHANGED <<subs, channels>>
       /\ AfterUnbind("channel", i, cb, event, id)
    /\ UNCHANGED <<ownerAlive, issued, subscribed, _globalEvents, _connection, lastNew>>

\* -------------------------------------------------- TNSPusherConnection
\* An unbind that leaves the entry in `events`.
EventsDelete_Kept(reg, cb) == reg

\* this.events.delete(callback)
EventsDelete(reg, cb) == [reg EXCEPT ![cb] = NoHandle]

\* bind only hands the closure to the transport; `events` is written by the
\* closure, when a matching payload arrives.
TNSPusherConnection_bind(event, cb) ==
    /\ ownerAlive
    /\ _connection.created
    /\ LET id == issued + 1 IN
       /\ subs' = ios_bind(subs, Subscription("connection", 0, NoChannel, event, cb))
       /\ issued' = id
       /\ AfterBind("connection", 0, cb, event, id)
    /\ UNCHANGED <<ownerAlive, subscribed, _globalEvents, channels, _connection, lastNew>>

TNSPusherConnection_unbind(event, cb) ==
    /\ ownerAlive
    /\ _connection.created
    /\ LET id == _connection.events[cb] IN
       /\ IF id # NoHandle
            THEN /\ subs' = ios_unbindWithCallbackId(subs, id)
                 /\ _connection' = [_connection EXCEPT
                                      !.events = EventsDelete(@, cb)]
            ELSE UNCHANGED <<subs, _connection>>
       /\ AfterUnbind("connection", 0, cb, event, id)
    /\ UNCHANGED <<ownerAlive, issued, subscribed, _globalEvents, channels, lastNew>>

\* get state()
state == _connection._state

\* --------------------------------------------------- PusherDelegateImpl
\* A table with the cases of Connected and Connecting exchanged.
_getState_Swapped(s) ==
    CASE s = "Connected" -> "CONNECTING"
      [] s = "Connecting" -> "CONNECTED"
      [] s = "Disconnecting" -> "DISCONNECTING"
      [] s = "Reconnecting" -> "RECONNECTING"
      [] OTHER -> "DISCONNECTED"

_getState(s) ==
    CASE s = "Connected" -> "CONNECTED"
      [] s = "Connecting" -> "CONNECTING"
      [] s = "Disconnecting" -> "DISCONNECTING"
      [] s = "Reconnecting" -> "RECONNECTING"
      [] OTHER -> "DISCONNECTED"

\* A handler that does not test the owner it resolved.
changedConnectionStateFromTo_Unguarded(old, new_) ==
    /\ _connection' = [MadeFor("delegate", connection)
                          EXCEPT !._state = _getState(new_)]
    /\ lastNew' = new_
    /\ Notified
    /\ UNCHANGED <<ownerAlive, issued, subs, subscribed, _globalEvents, channels>>

changedConnectionStateFromTo(old, new_) ==
    /\ IF ownerAlive
         THEN /\ _connection' = [MadeFor("delegate", connection)
                                    EXCEPT !._state = _getState(new_)]
              /\ lastNew' = new_
         ELSE UNCHANGED <<_connection, lastNew>>
    /\ Notified
    /\ UNCHANGED <<ownerAlive, issued, subs, subscribed, _globalEvents, channels>>

debugLogWithMessage ==
    /\ Notified
    /\ UNCHANGED <<ownerAlive, issued, subs, subscribed, _globalEvents, channels,
                   _connection, lastNew>>

failedToSubscribeToChannelWithNameResponseDataError(name) ==
    /\ Notified
    /\ UNCHANGED <<ownerAlive, issued, subs, subscribed, _globalEvents, channels,
                   _connection, lastNew>>

subscribedToChannelWithName(name) ==
    /\ Notified
    /\ UNCHANGED <<ownerAlive, issued, subs, subscribed, _globalEvents, channels,
                   _connection, lastNew>>

\* ---------------------------------------------------------- environment
\* Closures that never reach this.events.set.
Matched_Stale(cb, data) == {}

\* The handles of connection closures that call cb for this payload: each of
\* them ends with this.events.set(callback, id).
Matched(cb, data) ==
    {h \in Receivers(data) :
        /\ subs[h].scope = "connection"
        /\ subs[h].callback = cb
        /\ Closure(h, data) # {}}

\* The transport delivers one payload to every closure bound for it.  The
\* order in which it calls them is its own, so when several closures set the
\* same key of `events`, any of them may be the last.
Deliver(data) ==
    /\ data.channel # NoChannel => data.channel \in subscribed
    /\ invoked' = InvokedBy(data)
    /\ LET last == [c \in Callbacks |->
                     IF Matched(c, data) = {} THEN {_connection.events[c]}
                     ELSE Matched(c, data)]
       IN \E reg \in [Callbacks -> UNION {last[c] : c \in Callbacks}] :
             /\ \A c \in Callbacks : reg[c] \in last[c]
             /\ _connection' = [_connection EXCEPT !.events = reg]
    /\ run' = IF run.stage >= 2 THEN [run EXCEPT !.dlv = TRUE] ELSE NoRun
    /\ UNCHANGED <<ownerAlive, issued, subs, subscribed, _globalEvents, channels,
                   lastNew>>

\* The last strong reference to the TNSPusher goes away.
ReleaseOwner ==
    /\ ownerAlive
    /\ ownerAlive' = FALSE
    /\ Quiet
    /\ UNCHANGED <<issued, subs, subscribed, _globalEvents, channels, _connection, lastNew>>

\* The calls a program makes on the registries of the client, its channels and
\* its connection, and the payloads the transport delivers, while the
\* transport has handles and channel objects left to give.
Calls(handles) ==
    \/ get_connection
    \/ issued < handles /\ \E cb \in Callbacks : TNSPusher_bind(cb)
    \/ \E cb \in Callbacks : TNSPusher_unbind(cb)
    \/ Len(channels) < MaxChannels /\ \E name \in ChannelNames : subscribe(name)
    \/ unsubscribeAll
    \/ \E name \in ChannelNames : unsubscribe(name)
    \/ issued < handles
         /\ \E i \in 1..MaxChannels, e \in ChannelEventNames, cb \in Callbacks :
               TNSPusherChannel_bind(i, e, cb)
    \/ \E i \in 1..MaxChannels, e \in ChannelEventNames, cb \in Callbacks :
          TNSPusherChannel_unbind(i, e, cb)
    \/ issued < handles
         /\ \E e \in LogicalEvents, cb \in Callbacks : TNSPusherConnection_bind(e, cb)
    \/ \E e \in LogicalEvents, cb \in Callbacks : TNSPusherConnection_unbind(e, cb)
    \/ \E data \in RawPayloads : Deliver(data)

\* The connection's life: connect and disconnect, what the transport's
\* delegate is told, and the end of the client's life.
Lifecycle ==
    \/ connect
    \/ disconnect
    \/ \E old \in OldStates, new_ \in ConnectionState :
          changedConnectionStateFromTo(old, new_)
    \/ debugLogWithMessage
    \/ \E name \in ChannelNames : failedToSubscribeToChannelWithNameResponseDataError(name)
    \/ \E name \in ChannelNames : subscribedToChannelWithName(name)
    \/ ReleaseOwner

\* The registries: every bind, unbind, subscribe, unsubscribe and delivery,
\* with MaxHandles handles.
Next == Calls(MaxHandles)

Spec == Init /\ [][Next]_vars

\* The life cycle: the same calls with LifecycleHandles handles, interleaved
\* with the delegate's notifications and the release of the client.
NextLifecycle == Calls(LifecycleHandles) \/ Lifecycle

SpecLifecycle == Init /\ [][NextLifecycle]_vars

\* ------------------------------------------------------------- claims
\* The invocations a delivery of `data` makes through the closure of handle h.
Via(h, data) == {inv \in InvokedBy(data) : inv.via = h}

\* The payloads the transport can deliver now.
Deliverable == {data \in RawPayloads : data.channel # NoChannel => data.channel \in subscribed}

\* The payloads the transport hands to the closure of handle h while it is bound.
StreamOf(h) ==
    {data \in Deliverable :
        \/ subs[h].scope \in {"client", "connection"}
        \/ ~data.nil /\ data.channel = subs[h].chan /\ data.event = subs[h].event}

\* Handle h is recorded under its callback in the registry of its binder.
Recorded(h) ==
    CASE subs[h].scope = "client" -> _globalEvents[subs[h].callback] = h
      [] subs[h].scope = "channel" ->
            channels[subs[h].binder]._channelEvents[subs[h].callback] = h
      [] OTHER -> _connection.events[subs[h].callback] = h

\* C1: on the connection, bind(e, c) followed at once by unbind(e, c) leaves no
\* entry for c in `events`, and no payload delivered afterwards, whatever its
\* discriminator, invokes c through the connection.
C1_ConnectionBindUnbindSilences ==
    (run.scope = "connection" /\ run.stage = 2) =>
        /\ _connection.events[run.cb] = NoHandle
        /\ \A data \in Deliverable : \A inv \in InvokedBy(data) :
              subs[inv.via].scope = "connection" => inv.callback # run.cb
        /\ \A inv \in invoked :
              subs[inv.via].scope = "connection" => inv.callback # run.cb

C3_ChannelDeliveryInvokes ==
    \A h \in 1..issued :
        subs[h].scope = "channel" =>
            \A data \in StreamOf(h) :
                Via(h, data) =
                    IF subs[h].unbinds = 0
                      THEN {Invocation(subs[h].callback, deserialize(data), h)}
                      ELSE {}

\* C4: in the client's and in every channel's registry, each subscription that
\* bind created and that the transport still calls has its handle recorded under
\* its callback, so unbind can still reach it.
C4_NoUnreachableSubscription ==
    \A h \in 1..issued :
        (subs[h].active /\ subs[h].scope \in {"client", "channel"}) => Recorded(h)

\* An unbind(c) that finds no entry for c calls nothing and changes nothing.
UnbindWithoutEntryIsNoOp ==
    /\ \A cb \in Callbacks :
          (TNSPusher_unbind(cb) /\ _globalEvents[cb] = NoHandle)
              => UNCHANGED <<subs, _globalEvents, channels, _connection>>
    /\ \A i \in 1..Len(channels), e \in ChannelEventNames, cb \in Callbacks :
          (TNSPusherChannel_unbind(i, e, cb) /\ channels[i]._channelEvents[cb] = NoHandle)
              => UNCHANGED <<subs, _globalEvents, channels, _connection>>
    /\ \A e \in LogicalEvents, cb \in Callbacks :
          (TNSPusherConnection_unbind(e, cb) /\ _connection.events[cb] = NoHandle)
              => UNCHANGED <<subs, _globalEvents, channels, _connection>>

\* C5: in all three scopes an unbind(c) that finds no entry for c calls nothing
\* and changes nothing, so bind(c); unbind(c); unbind(c) calls the transport's
\* unbind exactly once.
C5_UnbindIdempotent ==
    /\ [][UnbindWithoutEntryIsNoOp]_vars
    /\ [](run.stage = 3 => run.calls = 1)

\* C6: when two distinct callbacks are bound to the same event in one registry
\* they hold two entries with distinct handles, and unbinding the first removes
\* only its own entry and subscription: the second keeps its entry, and keeps
\* being invoked by every later delivery of the event.
C6_DistinctCallbacksIndependent ==
    \A h1, h2 \in 1..issued :
        (/\ h1 # h2
         /\ subs[h1].scope = subs[h2].scope
         /\ subs[h1].scope \in {"client", "channel"}
         /\ subs[h1].binder = subs[h2].binder
         /\ subs[h1].event = subs[h2].event
         /\ subs[h1].callback # subs[h2].callback
         /\ subs[h1].unbinds > 0
         /\ subs[h2].unbinds = 0)
        => /\ ~subs[h1].active
           /\ ~Recorded(h1)
           /\ Recorded(h2)
           /\ subs[h2].active
           /\ \A data \in StreamOf(h2) :
                 Invocation(subs[h2].callback, deserialize(data), h2) \in InvokedBy(data)

\* C7: a payload whose `event` is the internal ping value invokes, through the
\* connection, every callback bound for ping, once and with the literal "ping",
\* and none bound for pong or error; the same for pong.
C7_PingPongDemux ==
    /\ \A h \in 1..issued :
          (subs[h].scope = "connection" /\ subs[h].active) =>
              \A data \in Deliverable :
                  /\ (~data.nil /\ objectForKey(data, "event") = InternalPing) =>
                        Via(h, data) =
                            IF subs[h].event = "ping"
                              THEN {Invocation(subs[h].callback, JsString("ping"), h)}
                              ELSE {}
                  /\ (~data.nil /\ objectForKey(data, "event") = InternalPong) =>
                        Via(h, data) =
                            IF subs[h].event = "pong"
                              THEN {Invocation(subs[h].callback, JsString("pong"), h)}
                              ELSE {}
    /\ \A inv \in invoked :
          subs[inv.via].scope = "connection" =>
              /\ inv.arg = JsString("ping") <=> subs[inv.via].event = "ping"
              /\ inv.arg = JsString("pong") <=> subs[inv.via].event = "pong"

\* C7 witness: a ping payload was delivered while one callback was bound for
\* ping and another for pong or error; only the first was invoked.
C7_Witness ==
    \E h1, h2 \in 1..issued :
        /\ subs[h1].scope = "connection" /\ subs[h1].event = "ping" /\ subs[h1].active
        /\ subs[h2].scope = "connection" /\ subs[h2].event # "ping" /\ subs[h2].active
        /\ subs[h1].callback # subs[h2].callback
        /\ invoked = {Invocation(subs[h1].callback, JsString("ping"), h1)}

\* The fixed table of the status translation.
StatusTable(new_) ==
    IF new_ = "Connected" THEN "CONNECTED"
    ELSE IF new_ = "Connecting" THEN "CONNECTING"
    ELSE IF new_ = "Disconnecting" THEN "DISCONNECTING"
    ELSE IF new_ = "Reconnecting" THEN "RECONNECTING"
    ELSE "DISCONNECTED"

\* C8: while the client is alive, after any notifications the connection's
\* state is the table's image of the most recent `new`, whatever `old` was and
\* whatever came before.
C8_StatusTranslation ==
    (ownerAlive /\ lastNew # NoNotification) =>
        /\ _connection.created
        /\ state = StatusTable(lastNew)

\* C8 witness: the last notification said Connected and the state is CONNECTED.
C8_Witness ==
    ownerAlive /\ lastNew = "Connected" /\ state = "CONNECTED"

\* C9: whenever a caller reads the connection's state, also before the first
\* notification, the value is one of the five ConnectionStatus values.
C9_StateIsAStatus ==
    _connection.created => state \in ConnectionStatus

\* C10: unsubscribe and unsubscribeAll only command the transport: no registry
\* and no subscription changes; and a Channel.unbind that finds c recorded,
\* also after the unsubscribe, calls the transport's unbind with the stored
\* handle and removes the entry.
C10_UnsubscribeKeepsRegistries ==
    [][/\ (unsubscribeAll \/ \E name \in ChannelNames : unsubscribe(name))
            => UNCHANGED <<_globalEvents, channels, _connection, subs, issued>>
       /\ \A i \in 1..Len(channels), e \in ChannelEventNames, cb \in Callbacks :
             LET id == channels[i]._channelEvents[cb] IN
             (TNSPusherChannel_unbind(i, e, cb) /\ id # NoHandle)
                 => /\ subs'[id].unbinds = subs[id].unbinds + 1
                    /\ ~subs'[id].active
                    /\ channels'[i]._channelEvents[cb] = NoHandle
      ]_vars

\* C10 witness: a channel was unsubscribed and its object still records a
\* callback, whose subscription the transport still holds.
C10_Witness ==
    \E i \in 1..Len(channels), cb \in Callbacks :
        /\ channels[i].name \notin subscribed
        /\ channels[i]._channelEvents[cb] # NoHandle
        /\ subs[channels[i]._channelEvents[cb]].active

\* C11: the connection accessor is memoized.  However accesses by the caller
\* and notifications of the delegate interleave, at most one
\* TNSPusherConnection is ever constructed for a client, an access returns the
\* instance the client holds, and the status the delegate wrote, also before
\* the caller's first access, is the one an access reads.
C11_ConnectionMemoized ==
    /\ Len(_connection.made) <= 1
    /\ _connection.created <=> Len(_connection.made) = 1
    /\ _connection.created => connection = _connection
    /\ lastNew # NoNotification => connection._state = StatusTable(lastNew)

\* C11 witness: the delegate constructed the facade and wrote CONNECTED; the
\* caller reached the same facade afterwards and bound a callback through it.
C11_Witness ==
    /\ _connection.made = <<"delegate">>
    /\ state = "CONNECTED"
    /\ \E h \in 1..issued : subs[h].scope = "connection"

\* The callbacks a delivery called through a binding of the connection.
ConnectionInvocations(called) == {inv \in called : subs[inv.via].scope = "connection"}

\* The payload carries the internal error discriminator.
IsInternalError(data) == ~data.nil /\ objectForKey(data, "event") = InternalError

\* A live binding for `error` is called, with the deserialized payload, exactly
\* on the payloads that carry the internal error discriminator.
ErrorBindingsDemuxed(data) ==
    \A h \in 1..issued :
        (subs[h].scope = "connection" /\ subs[h].event = "error" /\ subs[h].active)
            => /\ Invocation(subs[h].callback, deserialize(data), h) \in invoked'
                    <=> IsInternalError(data)
               /\ Via(h, data) # {} => IsInternalError(data)

\* The delivery called no callback of a connection binding and left the three
\* registries as they were.
SilentForConnection ==
    /\ ConnectionInvocations(invoked') = {}
    /\ UNCHANGED <<_globalEvents, channels, _connection>>

\* C12 as stated, of every delivery possible in a state: a callback bound for
\* `error` is called with the deserialized payload exactly on internal error
\* payloads, and a delivery with any other discriminator, or with no payload,
\* calls no callback of a connection binding and changes no registry.
C12_OnlyErrorPayloadsReachConnection ==
    \A data \in RawPayloads :
        ~ENABLED (/\ Deliver(data)
                  /\ ~(/\ ErrorBindingsDemuxed(data)
                       /\ ~IsInternalError(data) => SilentForConnection))

\* C12, amended, of every delivery possible in every state: a callback bound
\* for `error` is called with the deserialized payload exactly on internal
\* error payloads; a delivery with no payload, or with a discriminator that is
\* none of the three internal values, calls no callback of a connection
\* binding and changes no registry.
C12_ErrorDemux ==
    [](\A data \in RawPayloads :
           ~ENABLED (/\ Deliver(data)
                     /\ ~(/\ ErrorBindingsDemuxed(data)
                          /\ (data.nil
                                 \/ objectForKey(data, "event") \notin InternalPusherEvents)
                                => SilentForConnection)))

\* C12 witness: an internal error payload was delivered and a callback bound
\* for `error` on the connection received it, deserialized.
C12_Witness ==
    \E inv \in invoked :
        /\ subs[inv.via].scope = "connection"
        /\ subs[inv.via].event = "error"
        /\ inv.arg \in {JsObject(InternalError, NoChannel, b) : b \in Bodies}
        /\ _connection.events[inv.callback] = inv.via

\* C13: the connection's cached status is written only by the delegate.
\* Every step that is not a notification (connect, disconnect, subscribe,
\* unsubscribe, unsubscribeAll, the binds and unbinds of the three scopes, the
\* accessor, a payload delivery) leaves it as it was, and a step that changes
\* it is a changedConnectionStateFromTo step.
C13_StatusWrittenByDelegateOnly ==
    [][/\ run'.scope # "delegate" => state' = state
       /\ state' # state =>
             \E old \in OldStates, new_ \in ConnectionState :
                 changedConnectionStateFromTo(old, new_)
      ]_vars

\* C13 witness: after the notification of Connected, a callback was bound and
\* unbound and a payload was delivered; the status is still CONNECTED.
C13_Witness ==
    /\ lastNew = "Connected"
    /\ state = "CONNECTED"
    /\ run.stage = 2
    /\ run.dlv

\* One of the four notifications the claim names reaches the delegate.
DelegateStep ==
    \/ \E old \in OldStates, new_ \in ConnectionState :
          changedConnectionStateFromTo(old, new_)
    \/ debugLogWithMessage
    \/ \E name \in ChannelNames :
          failedToSubscribeToChannelWithNameResponseDataError(name)
    \/ \E name \in ChannelNames : subscribedToChannelWithName(name)

\* C14: a gone owner is tolerated.  Once the delegate's weak reference resolves
\* to nothing, each of the four notifications can still be taken (none
\* raises), and taking one constructs no facade and changes no status, no
\* registry and no subscription.
C14_GoneOwnerTolerated ==
    /\ [](~ownerAlive =>
            /\ ENABLED (\E old \in OldStates, new_ \in ConnectionState :
                           changedConnectionStateFromTo(old, new_))
            /\ ENABLED debugLogWithMessage
            /\ ENABLED (\E name \in ChannelNames :
                           failedToSubscribeToChannelWithNameResponseDataError(name))
            /\ ENABLED (\E name \in ChannelNames : subscribedToChannelWithName(name)))
    /\ [][(~ownerAlive /\ DelegateStep) =>
             UNCHANGED <<_connection, _globalEvents, channels, subs, issued,
                         subscribed, lastNew>>
         ]_vars

\* C14 witness: the owner was released before any facade existed, a
\* notification arrived afterwards, and there is still no facade.
C14_Witness ==
    /\ ~ownerAlive
    /\ run.scope = "delegate"
    /\ ~_connection.created
    /\ _connection.made = <<>>

\* The live bindings of the connection for one (event, callback) pair.
ConnectionBindings(e, cb) ==
    {h \in 1..issued : /\ subs[h].scope = "connection"
                       /\ subs[h].event = e
                       /\ subs[h].callback = cb
                       /\ subs[h].active}

\* No (event, callback) pair was bound twice on the connection.
DistinctPairs ==
    \A h1, h2 \in 1..issued :
        (/\ h1 # h2
         /\ subs[h1].scope = "connection"
         /\ subs[h2].scope = "connection")
            => (subs[h1].event # subs[h2].event \/ subs[h1].callback # subs[h2].callback)

\* C15: every Connection.bind call creates one transport subscription with a
\* handle of its own, and, the bound (event, callback) pairs being distinct,
\* unbind(e, c) deactivates exactly the subscription bind(e, c) created and
\* none of the others.
C15_OneSubscriptionPerBindRemovable ==
    [][\A e \in LogicalEvents, cb \in Callbacks :
          /\ TNSPusherConnection_bind(e, cb) =>
                /\ issued' = issued + 1
                /\ subs'[issued'] = Subscription("connection", 0, NoChannel, e, cb)
                /\ \A h \in 1..issued : subs'[h] = subs[h]
          /\ (TNSPusherConnection_unbind(e, cb) /\ DistinctPairs) =>
                \A h \in 1..issued :
                    subs'[h].active <=> (subs[h].active /\ h \notin ConnectionBindings(e, cb))
      ]_vars

\* h is a binding of the connection whose callback the connection was given
\* in no other bind.
Only(h) ==
    /\ subs[h].scope = "connection"
    /\ \A g \in 1..issued :
          (g # h /\ subs[g].scope = "connection") => subs[g].callback # subs[h].callback

\* What holds of such a binding in every state: the entry of its callback is
\* this handle or none; the handle is passed to the transport's unbind at most
\* once; and once it was, the entry is gone and no payload reaches the callback
\* through the connection.
UnboundAfterDelivery(h) ==
    LET c == subs[h].callback IN
    /\ _connection.events[c] \in {NoHandle, h}
    /\ _connection.events[c] = h => (subs[h].active /\ subs[h].unbinds = 0)
    /\ subs[h].unbinds <= 1
    /\ subs[h].unbinds = 1 =>
          /\ ~subs[h].active
          /\ _connection.events[c] = NoHandle
          /\ \A data \in RawPayloads : h \notin Receivers(data)
          /\ \A inv \in ConnectionInvocations(invoked) : inv.callback # c

BindingsOf(c) == {h \in 1..issued : subs[h].scope = "connection" /\ subs[h].callback = c}

\* c was bound on the connection for different events only.
DistinctEvents(c) ==
    \A h1, h2 \in BindingsOf(c) : h1 # h2 => subs[h1].event # subs[h2].event

\* c was bound on the connection more than once, each time for another event.
TwoEvents(c) == Cardinality(BindingsOf(c)) >= 2 /\ DistinctEvents(c)

\* The bindings of c whose closure a delivery of `data` makes call c.
Fired(c, data) == {h \in BindingsOf(c) : Via(h, data) # {}}

\* C17, of every state and every step possible in it: with one callback c
\* bound on the connection for two different events, each delivery that
\* reaches c through one of the bindings makes that binding's handle the entry
\* of c, so the entry is the handle of the binding that fired most recently.
\* An unbind with c, whatever event it names,
\* deactivates exactly that subscription and clears the entry; the other
\* binding is untouched, stays active and keeps invoking c; and a further
\* unbind, the entry being empty until the other binding fires again, changes
\* nothing.
C17_UnbindRemovesLastFired ==
    [](/\ \A c \in Callbacks :
             _connection.events[c] # NoHandle =>
                 /\ _connection.events[c] \in BindingsOf(c)
                 /\ subs[_connection.events[c]].active
       /\ \A c \in Callbacks, data \in RawPayloads :
             TwoEvents(c) =>
                 /\ Cardinality(Fired(c, data)) <= 1
                 /\ ~ENABLED (/\ Deliver(data)
                              /\ ~(/\ \A h \in Fired(c, data) : _connection'.events[c] = h
                                   /\ Fired(c, data) = {} =>
                                         _connection'.events[c] = _connection.events[c]))
       /\ \A c \in Callbacks, e \in LogicalEvents :
             TwoEvents(c) =>
                 ~ENABLED (/\ TNSPusherConnection_unbind(e, c)
                           /\ ~(LET id == _connection.events[c] IN
                                IF id = NoHandle
                                  THEN UNCHANGED <<subs, _connection>>
                                  ELSE /\ ~subs'[id].active
                                       /\ subs'[id].unbinds = subs[id].unbinds + 1
                                       /\ \A g \in 1..issued :
                                             g # id => subs'[g] = subs[g]
                                       /\ _connection'.events[c] = NoHandle)))

\* C17 witness: c is bound for ping and for pong; the pong binding, the one
\* that had fired last, was removed by an unbind; the ping binding is still
\* active, has just invoked c again and is now the entry of c.
C17_Witness ==
    \E c \in Callbacks, h1, h2 \in 1..issued :
        /\ BindingsOf(c) = {h1, h2}
        /\ subs[h1].event = "ping" /\ subs[h2].event = "pong"
        /\ subs[h1].active /\ subs[h1].unbinds = 0
        /\ ~subs[h2].active /\ subs[h2].unbinds = 1
        /\ _connection.events[c] = h1
        /\ invoked = {Invocation(c, JsString("ping"), h1)}

\* Handle id sits in a registry: it is one the transport issued, to a bind of
\* the scope (and the channel object) that owns the registry, and it was not
\* passed to the transport's unbind yet.
OwnHandle(id, scope, binder) ==
    /\ id \in 1..issued
    /\ subs[id].scope = scope
    /\ subs[id].binder = binder
    /\ subs[id].unbinds = 0

\* Every entry of every registry is such a handle.
RegistriesHoldOwnHandles ==
    \A cb \in Callbacks :
        /\ _globalEvents[cb] # NoHandle => OwnHandle(_globalEvents[cb], "client", 0)
        /\ _connection.events[cb] # NoHandle =>
              OwnHandle(_connection.events[cb], "connection", 0)
        /\ \A i \in 1..Len(channels) :
              channels[i]._channelEvents[cb] # NoHandle =>
                  OwnHandle(channels[i]._channelEvents[cb], "channel", i)

\* The step that passes handle h to the transport's unbind is an unbind of the
\* scope that bound h, on the registry entry that holds h.
UnbindOfOwnScope(h) ==
    CASE subs[h].scope = "client" ->
            \E cb \in Callbacks : TNSPusher_unbind(cb) /\ _globalEvents[cb] = h
      [] subs[h].scope = "channel" ->
            \E e \in ChannelEventNames, cb \in Callbacks :
                /\ TNSPusherChannel_unbind(subs[h].binder, e, cb)
                /\ channels[subs[h].binder]._channelEvents[cb] = h
      [] OTHER ->
            \E e \in LogicalEvents, cb \in Callbacks :
                TNSPusherConnection_unbind(e, cb) /\ _connection.events[cb] = h

\* C18: in each scope the transport's unbind is called only with a handle an
\* earlier bind of that scope received, and with each handle at most once.
C18_UnbindOwnHandleOnce ==
    /\ [](RegistriesHoldOwnHandles /\ \A h \in 1..issued : subs[h].unbinds <= 1)
    /\ [][\A h \in 1..issued :
            subs'[h].unbinds # subs[h].unbinds =>
                /\ subs[h].unbinds = 0
                /\ subs'[h].unbinds = 1
                /\ UnbindOfOwnScope(h)
         ]_vars

\* C18 witness: a handle of the client and a handle of the connection were
\* each passed to the transport's unbind, once.
C18_Witness ==
    \E h1, h2 \in 1..issued :
        /\ subs[h1].scope = "client" /\ subs[h1].unbinds = 1
        /\ subs[h2].scope = "connection" /\ subs[h2].unbinds = 1

=============================================================================
